---------------------------- MODULE Spec2Model ----------------------------
(***************************************************************************)
(* Model of src-tauri/src/lib.rs: the two commands of the application      *)
(* shell, nwep_fetch and get_app_version, and the helpers extract_path and *)
(* to_hex.                                                                 *)
(*                                                                         *)
(* Text that the code only carries around (error messages, statuses) is a  *)
(* TLA+ string.  Text that the code takes apart (a URL, a path, a hex      *)
(* rendering) is a sequence of one-character strings.  An Option<T> is a   *)
(* sequence of length at most one: <<>> is None and <<v>> is Some(v).      *)
(***************************************************************************)
EXTENDS Integers, Sequences, FiniteSets, TLC

(***************************************************************************)
(* Bounds of the model.                                                    *)
(***************************************************************************)
\* number of nwep_fetch invocations that may be in flight together
MaxCalls == 2
\* longest resource path of the URLs given to extract_path
MaxPathLen == 4
\* longest header list of the responses given to one invocation
MaxHeaders == 2
\* longest byte sequence given to to_hex
MaxKeyLen == 2

Calls == 1..MaxCalls

None == << >>
Some(v) == << v >>

(***************************************************************************)
(* to_hex                                                                  *)
(***************************************************************************)
HexDigits == << "0", "1", "2", "3", "4", "5", "6", "7",
                "8", "9", "a", "b", "c", "d", "e", "f" >>

\* a plausible slip: "{:x}", no padding to two digits
FormatByteNoPad(b) ==
    IF b < 16 THEN << HexDigits[b + 1] >>
    ELSE << HexDigits[(b \div 16) + 1], HexDigits[(b % 16) + 1] >>

\* format!("{:02x}", b) for a u8
FormatByte02x(b) == << HexDigits[(b \div 16) + 1], HexDigits[(b % 16) + 1] >>

RECURSIVE to_hex(_)
to_hex(bytes) ==
    IF bytes = << >> THEN << >>
    ELSE FormatByte02x(Head(bytes)) \o to_hex(Tail(bytes))

(***************************************************************************)
(* extract_path                                                            *)
(***************************************************************************)
WebPrefix == << "w", "e", "b", ":", "/", "/" >>

\* str::strip_prefix: Some(rest) when s starts with prefix, else None
strip_prefix(s, prefix) ==
    IF Len(s) >= Len(prefix) /\ SubSeq(s, 1, Len(prefix)) = prefix
    THEN Some(SubSeq(s, Len(prefix) + 1, Len(s)))
    ELSE None

\* Option::unwrap_or
unwrap_or(opt, default) == IF opt = None THEN default ELSE opt[1]

\* str::find(ch): Some(position of the first ch, from 1), else None
find(s, ch) ==
    IF \E i \in 1..Len(s) : s[i] = ch
    THEN Some(CHOOSE i \in 1..Len(s) :
                 s[i] = ch /\ \A j \in 1..(i - 1) : s[j] # ch)
    ELSE None

\* a plausible slip: the slice starts after the slash
extract_path_after_slash(url) ==
    LET without_scheme == unwrap_or(strip_prefix(url, WebPrefix), url)
        slash_pos == find(without_scheme, "/")
    IN  IF slash_pos # None
        THEN SubSeq(without_scheme, slash_pos[1] + 1, Len(without_scheme))
        ELSE << "/" >>

\* a plausible slip: no default when the URL has no slash
extract_path_no_default(url) ==
    LET without_scheme == unwrap_or(strip_prefix(url, WebPrefix), url)
        slash_pos == find(without_scheme, "/")
    IN  IF slash_pos # None
        THEN SubSeq(without_scheme, slash_pos[1], Len(without_scheme))
        ELSE << >>

extract_path(url) ==
    LET without_scheme == unwrap_or(strip_prefix(url, WebPrefix), url)
        slash_pos == find(without_scheme, "/")
    IN  IF slash_pos # None
        THEN SubSeq(without_scheme, slash_pos[1], Len(without_scheme))
        ELSE << "/" >>

(***************************************************************************)
(* What the nwep library can hand back.  The library is an external crate: *)
(* each of its calls is an input of the model, drawn from these sets.      *)
(***************************************************************************)
GenErrors  == { [kind |-> "EntropyError", msg |-> "entropy source unavailable"] }

ConnErrors == { [kind |-> "TransportError",   msg |-> "connection refused"],
                [kind |-> "IdentityMismatch", msg |-> "peer identity mismatch"] }

GetErrors  == { [kind |-> "Timeout", msg |-> "timed out waiting for response"] }

\* format!("{e}"): the Display text of a library error
Display(e) == e.msg

\* public keys a peer may present in the handshake (byte sequences)
ServerKeys == { << 10, 255 >> }

\* the public key of the k-th keypair the library generates
PubKey(k) == << k >>

\* nwep's NodeId of a public key, and its to_string()
NodeId(pubkey) == [node |-> pubkey]
NodeIdToString(id) == << "node" >> \o to_hex(id.node)

Header(n, v) == [name |-> n, value |-> v]

Responses ==
    { [status |-> "ok", status_details |-> "",
       headers |-> << >>, body |-> << 104, 105 >>],
      [status |-> "not_found", status_details |-> "no such page",
       headers |-> << Header("via", "a"), Header("via", "b") >>,
       body |-> << 104, 255 >>] }

\* String::from_utf8_lossy on the bodies above: an ASCII byte is its own
\* character, a byte that is no UTF-8 (0xFF) becomes U+FFFD
RECURSIVE from_utf8_lossy(_)
from_utf8_lossy(bytes) ==
    IF bytes = << >> THEN << >>
    ELSE << (IF Head(bytes) < 128 THEN Head(bytes) ELSE 65533) >>
         \o from_utf8_lossy(Tail(bytes))

\* the URLs given to nwep_fetch, and the one the c-th invocation is given
FetchUrls == << << "w", "e", "b", ":", "/", "/", "h", "/", "a" >>,
                << "w", "e", "b", ":", "/", "/", "h" >>,
                << "h", ":", "8", "/", "a", "/", "b" >> >>
UrlOfCall(c) == FetchUrls[((c - 1) % Len(FetchUrls)) + 1]

\* env!("CARGO_PKG_VERSION")
PkgVersion == "CARGO_PKG_VERSION"

(***************************************************************************)
(* The values nwep_fetch builds.                                           *)
(***************************************************************************)
LogStep(n, o, d) == [name |-> n, ok |-> o, detail |-> d]

NameKeypair == "generated ephemeral keypair"
NameConnect == "client established connection"
NameFetch   == "fetched resource"

KeygenOkStep == LogStep(NameKeypair, TRUE, None)

KeygenErrStep(e) == LogStep(NameKeypair, FALSE, Some(Display(e)))

ConnectOkStep == LogStep(NameConnect, TRUE, None)

\* a plausible slip: the failed step is recorded without the error's text
ConnectErrStepNoDetail(e) == LogStep(NameConnect, FALSE, None)

ConnectErrStep(e) == LogStep(NameConnect, FALSE, Some(Display(e)))

\* a plausible slip: the two texts are always joined
FetchDetailAlwaysJoined(r) == r.status \o " " \o r.status_details

\* the detail of the successful fetch step
FetchDetail(r) ==
    IF r.status_details = "" THEN r.status
    ELSE r.status \o " " \o r.status_details

FetchOkStep(r) == LogStep(NameFetch, TRUE, Some(FetchDetail(r)))

FetchErrStep(e) == LogStep(NameFetch, FALSE, Some(Display(e)))

ConnectionInfo(cl) ==
    [client_node_id |-> NodeIdToString(NodeId(PubKey(cl.keypair))),
     server_node_id |-> NodeIdToString(NodeId(cl.peer)),
     server_pubkey  |-> to_hex(cl.peer)]

\* a plausible slip: ok copied from the final result
KeygenFailResultOk(e, lg) ==
    [ok |-> TRUE, error |-> Some(Display(e)),
     status |-> None, status_details |-> None, body |-> None,
     headers |-> << >>, connection |-> None, log |-> lg]

KeygenFailResult(e, lg) ==
    [ok |-> FALSE, error |-> Some(Display(e)),
     status |-> None, status_details |-> None, body |-> None,
     headers |-> << >>, connection |-> None, log |-> lg]

\* a plausible slip: the error text is left out of the result
ConnectFailResultNoError(e, lg) ==
    [ok |-> FALSE, error |-> None,
     status |-> None, status_details |-> None, body |-> None,
     headers |-> << >>, connection |-> None, log |-> lg]

ConnectFailResult(e, lg) ==
    [ok |-> FALSE, error |-> Some(Display(e)),
     status |-> None, status_details |-> None, body |-> None,
     headers |-> << >>, connection |-> None, log |-> lg]

\* a plausible slip: the third early return copied from the second
GetFailResultNoConnection(e, ci, lg) ==
    [ok |-> FALSE, error |-> Some(Display(e)),
     status |-> None, status_details |-> None, body |-> None,
     headers |-> << >>, connection |-> None, log |-> lg]

GetFailResult(e, ci, lg) ==
    [ok |-> FALSE, error |-> Some(Display(e)),
     status |-> None, status_details |-> None, body |-> None,
     headers |-> << >>, connection |-> Some(ci), log |-> lg]

\* a plausible slip: the headers are collected by name, one per name
RECURSIVE FirstOfEachName(_, _)
FirstOfEachName(hs, seen) ==
    IF hs = << >> THEN << >>
    ELSE IF Head(hs).name \in seen
         THEN FirstOfEachName(Tail(hs), seen)
         ELSE << Header(Head(hs).name, Head(hs).value) >>
              \o FirstOfEachName(Tail(hs), seen \cup { Head(hs).name })

MapHeadersByName(hs) == FirstOfEachName(hs, { })

\* resp.headers.into_iter().map(|h| NwepHeader {..}).collect()
MapHeaders(hs) == [i \in 1..Len(hs) |-> Header(hs[i].name, hs[i].value)]

SuccessResult(r, ci, lg) ==
    [ok |-> TRUE, error |-> None,
     status |-> Some(r.status), status_details |-> Some(r.status_details),
     body |-> Some(from_utf8_lossy(r.body)),
     headers |-> MapHeaders(r.headers),
     connection |-> Some(ci), log |-> lg]

(***************************************************************************)
(* State.  One entry per nwep_fetch invocation c; the closure's locals     *)
(* (keypair, path, client, connection, log) are the invocation's own.      *)
(***************************************************************************)
VARIABLES
    pc,          \* where invocation c is: "idle", "keygen" (in
                 \* Keypair::generate), "connecting" (in connect), "getting"
                 \* (in Client::get), "exited" (the closure is over, the join
                 \* handle is ready), "returned" (the command has answered)
    url,         \* the command's argument
    abandoned,   \* the caller has dropped the command's future
    keypair,     \* Option: the generated keypair, until connect consumes it
    path,        \* Option: extract_path(&url)
    client,      \* Option: the connected client
    connection,  \* Option: the ConnectionInfo built from the client
    log,         \* the Vec<LogStep>
    taskOut,     \* Option: what the join handle holds, until it is awaited
    ret,         \* Option: what the command returned to its caller
    transport,   \* the connection under the client: "none", "open", "closed"
    issued,      \* keypairs the library has generated so far
    hist,        \* c's library calls and what they handed back, in order
    reports,     \* how many times c's outcome was delivered to the caller
    appVersion,  \* Option: the last answer of get_app_version
    behind,      \* a get_app_version was answered while some nwep_fetch
                 \* was inside connect or get
    purl,        \* extract_path alone: the URL, by its parts
    pout,        \* extract_path alone: Option, the path returned
    hin,         \* to_hex alone: two byte sequences
    hout         \* to_hex alone: Option, their two renderings

vars == << pc, url, abandoned, keypair, path, client, connection, log,
           taskOut, ret, transport, issued, hist, reports, appVersion,
           behind, purl, pout, hin, hout >>

pathVars == << purl, pout, hin, hout >>

\* the outcome of the task, as the join handle holds it
TaskOk(r)  == [tag |-> "Ok", val |-> Some(r)]
TaskPanic  == [tag |-> "Panic", val |-> None]

\* what the command returns: Ok(NwepResult) or Err(String)
RetOk(r)   == [tag |-> "Ok", val |-> Some(r), err |-> ""]
RetErr(m)  == [tag |-> "Err", val |-> None, err |-> m]

\* the Display text of tokio's JoinError for a panicked task
JoinErrorText == "task panicked"

\* the closure's dealings with the library: a call made (generate with
\* nothing, connect with the keypair, the URL being url[c], get with the
\* client and the path) and a call's return (with its outcome)
Called(op, arg)        == [ev |-> "call", op |-> op, ok |-> TRUE, val |-> arg]
Returned(op, ok, val)  == [ev |-> "ret", op |-> op, ok |-> ok, val |-> val]

Blocked(c) == pc[c] \in { "connecting", "getting" }

InClosure(c) == pc[c] \in { "keygen", "connecting", "getting" }

\* a plausible slip: the blocking sequence is run inline by the command
RunsOnCaller(c) == "caller"

\* where the keygen/connect/get sequence of invocation c executes
RunsOn(c) == "worker"

\* the caller's execution context is taken while a command body runs on it
CallerFree == \A c \in Calls : ~(RunsOn(c) = "caller" /\ InClosure(c))

\* a plausible slip: the step is inserted at the front of the log
PushFront(c, step) == [log EXCEPT ![c] = << step >> \o @]

\* a plausible slip: one log shared by all invocations
PushShared(c, step) == [d \in Calls |-> Append(log[d], step)]

\* log.push(step) in invocation c
Push(c, step) == [log EXCEPT ![c] = Append(@, step)]

DefaultParts == [scheme |-> << "w", "e", "b" >>, host |-> << "h" >>,
                 port |-> << >>, path |-> << >>]

InitCalls ==
    /\ pc = [c \in Calls |-> "idle"]
    /\ url = [c \in Calls |-> << >>]
    /\ abandoned = [c \in Calls |-> FALSE]
    /\ keypair = [c \in Calls |-> None]
    /\ path = [c \in Calls |-> None]
    /\ client = [c \in Calls |-> None]
    /\ connection = [c \in Calls |-> None]
    /\ log = [c \in Calls |-> << >>]
    /\ taskOut = [c \in Calls |-> None]
    /\ ret = [c \in Calls |-> None]
    /\ transport = [c \in Calls |-> "none"]
    /\ issued = 0
    /\ hist = [c \in Calls |-> << >>]
    /\ reports = [c \in Calls |-> 0]
    /\ appVersion = None
    /\ behind = FALSE

HexIdle ==
    /\ hin = << << >>, << >> >>
    /\ hout = None

Init ==
    /\ InitCalls
    /\ purl = DefaultParts
    /\ pout = None
    /\ HexIdle

(***************************************************************************)
(* nwep_fetch                                                              *)
(***************************************************************************)
callFrame == << appVersion, purl, pout, hin, hout >>

\* the command is invoked (invocations are numbered as they arrive): the
\* closure goes to a blocking worker, which starts with Keypair::generate()
InvokeWith(c, u) ==
    /\ pc[c] = "idle"
    /\ \A d \in 1..(c - 1) : pc[d] # "idle"
    /\ CallerFree
    /\ url' = [url EXCEPT ![c] = u]
    /\ pc' = [pc EXCEPT ![c] = "keygen"]
    /\ hist' = [hist EXCEPT ![c] = Append(@, Called("generate", None))]
    /\ UNCHANGED << abandoned, keypair, path, client, connection, log,
                    taskOut, ret, transport, issued, reports, behind >>
    /\ UNCHANGED callFrame

\* the c-th invocation, with the URL it is given
Invoke(c) == InvokeWith(c, UrlOfCall(c))

\* a plausible slip: the first keypair generated is kept and handed to
\* every connect
KeygenOkCachedKeypair(c) ==
    /\ pc[c] = "keygen"
    /\ LET kp == issued + 1
           p  == extract_path(url[c])
       IN  /\ issued' = kp
           /\ keypair' = [keypair EXCEPT ![c] = Some(1)]
           /\ log' = Push(c, KeygenOkStep)
           /\ path' = [path EXCEPT ![c] = Some(p)]
           /\ hist' = [hist EXCEPT ![c] =
                  @ \o << Returned("generate", TRUE, Some(kp)),
                          Called("connect", Some(1)) >>]
    /\ transport' = [transport EXCEPT ![c] = "opening"]
    /\ pc' = [pc EXCEPT ![c] = "connecting"]
    /\ UNCHANGED << url, abandoned, client, connection, taskOut, ret,
                    reports, behind >>
    /\ UNCHANGED callFrame

\* Keypair::generate() returns Ok(kp); the path is extracted and connect is
\* called with the keypair
KeygenOk(c) ==
    /\ pc[c] = "keygen"
    /\ LET kp == issued + 1
           p  == extract_path(url[c])
       IN  /\ issued' = kp
           /\ keypair' = [keypair EXCEPT ![c] = Some(kp)]
           /\ log' = Push(c, KeygenOkStep)
           /\ path' = [path EXCEPT ![c] = Some(p)]
           /\ hist' = [hist EXCEPT ![c] =
                  @ \o << Returned("generate", TRUE, Some(kp)),
                          Called("connect", Some(kp)) >>]
    /\ transport' = [transport EXCEPT ![c] = "opening"]
    /\ pc' = [pc EXCEPT ![c] = "connecting"]
    /\ UNCHANGED << url, abandoned, client, connection, taskOut, ret,
                    reports, behind >>
    /\ UNCHANGED callFrame

\* Keypair::generate() returns Err(e)
KeygenErr(c) ==
    /\ pc[c] = "keygen"
    /\ \E e \in GenErrors :
         LET lg == Push(c, KeygenErrStep(e))
         IN  /\ log' = lg
             /\ taskOut' = [taskOut EXCEPT ![c] =
                    Some(TaskOk(KeygenFailResult(e, lg[c])))]
             /\ hist' = [hist EXCEPT ![c] =
                    Append(@, Returned("generate", FALSE, Some(e)))]
    /\ pc' = [pc EXCEPT ![c] = "exited"]
    /\ UNCHANGED << url, abandoned, keypair, path, client, connection, ret,
                    transport, issued, reports, behind >>
    /\ UNCHANGED callFrame

\* the closure panics inside the library call it is in; unwinding drops
\* the client, and with it the transport
Panic(c) ==
    /\ InClosure(c)
    /\ taskOut' = [taskOut EXCEPT ![c] = Some(TaskPanic)]
    /\ transport' = [transport EXCEPT ![c] =
           IF @ = "none" THEN "none" ELSE "closed"]
    /\ pc' = [pc EXCEPT ![c] = "exited"]
    /\ UNCHANGED << url, abandoned, keypair, path, client, connection, log,
                    ret, issued, hist, reports, behind >>
    /\ UNCHANGED callFrame

\* a plausible slip: a failed connect is tried once more
ConnectFailedRetry(c, e) ==
    LET lg == Push(c, ConnectErrStep(e))
        n  == Cardinality({ i \in 1..Len(hist[c]) :
                  hist[c][i].ev = "call" /\ hist[c][i].op = "connect" })
    IN  IF n < 2
        THEN /\ log' = log
             /\ hist' = [hist EXCEPT ![c] =
                    @ \o << Returned("connect", FALSE, Some(e)),
                            Called("connect", keypair[c]) >>]
             /\ UNCHANGED << taskOut, transport, pc >>
        ELSE /\ log' = lg
             /\ taskOut' = [taskOut EXCEPT ![c] =
                    Some(TaskOk(ConnectFailResult(e, lg[c])))]
             /\ hist' = [hist EXCEPT ![c] =
                    Append(@, Returned("connect", FALSE, Some(e)))]
             /\ transport' = [transport EXCEPT ![c] = "closed"]
             /\ pc' = [pc EXCEPT ![c] = "exited"]

\* the Err(e) arm of the connect match
ConnectFailed(c, e) ==
    LET lg == Push(c, ConnectErrStep(e))
    IN  /\ log' = lg
        /\ taskOut' = [taskOut EXCEPT ![c] =
               Some(TaskOk(ConnectFailResult(e, lg[c])))]
        /\ hist' = [hist EXCEPT ![c] =
               Append(@, Returned("connect", FALSE, Some(e)))]
        /\ transport' = [transport EXCEPT ![c] = "closed"]
        /\ pc' = [pc EXCEPT ![c] = "exited"]

\* connect returns Err(e)
ConnectErr(c) ==
    /\ pc[c] = "connecting"
    /\ \E e \in ConnErrors : ConnectFailed(c, e)
    /\ UNCHANGED << url, abandoned, keypair, path, client, connection, ret,
                    issued, reports, behind >>
    /\ UNCHANGED callFrame

\* connect returns Ok(client); the identifiers are read off the client and
\* client.get(&path) is called
ConnectOk(c) ==
    /\ pc[c] = "connecting"
    /\ \E pk \in ServerKeys :
         LET cl == [keypair |-> keypair[c][1], peer |-> pk]
         IN  /\ client' = [client EXCEPT ![c] = Some(cl)]
             /\ connection' = [connection EXCEPT ![c] =
                    Some(ConnectionInfo(cl))]
             /\ hist' = [hist EXCEPT ![c] =
                    @ \o << Returned("connect", TRUE, Some(cl)),
                            Called("get", << cl, path[c][1] >>) >>]
    /\ log' = Push(c, ConnectOkStep)
    /\ transport' = [transport EXCEPT ![c] = "open"]
    /\ pc' = [pc EXCEPT ![c] = "getting"]
    /\ UNCHANGED << url, abandoned, keypair, path, taskOut, ret, issued,
                    reports, behind >>
    /\ UNCHANGED callFrame

\* client.get returns Err(e); the closure ends and drops the client
GetErr(c) ==
    /\ pc[c] = "getting"
    /\ \E e \in GetErrors :
         LET lg == Push(c, FetchErrStep(e))
         IN  /\ log' = lg
             /\ taskOut' = [taskOut EXCEPT ![c] =
                    Some(TaskOk(GetFailResult(e, connection[c][1], lg[c])))]
             /\ hist' = [hist EXCEPT ![c] =
                    Append(@, Returned("get", FALSE, Some(e)))]
    /\ transport' = [transport EXCEPT ![c] = "closed"]
    /\ pc' = [pc EXCEPT ![c] = "exited"]
    /\ UNCHANGED << url, abandoned, keypair, path, client, connection, ret,
                    issued, reports, behind >>
    /\ UNCHANGED callFrame

\* client.get returns Ok(resp); the closure ends and drops the client
GetOkWith(c, r) ==
    /\ pc[c] = "getting"
    /\ LET lg == Push(c, FetchOkStep(r))
       IN  /\ log' = lg
           /\ taskOut' = [taskOut EXCEPT ![c] =
                  Some(TaskOk(SuccessResult(r, connection[c][1], lg[c])))]
           /\ hist' = [hist EXCEPT ![c] =
                  Append(@, Returned("get", TRUE, Some(r)))]
    /\ transport' = [transport EXCEPT ![c] = "closed"]
    /\ pc' = [pc EXCEPT ![c] = "exited"]
    /\ UNCHANGED << url, abandoned, keypair, path, client, connection, ret,
                    issued, reports, behind >>
    /\ UNCHANGED callFrame

GetOk(c) == \E r \in Responses : GetOkWith(c, r)

\* .await.map_err(|e| format!("Task error: {e}"))? on the join handle
AwaitResult(t) ==
    IF t.tag = "Ok" THEN RetOk(t.val[1])
    ELSE RetErr("Task error: " \o JoinErrorText)

\* the awaited join handle is ready and the command answers its caller
Join(c) ==
    /\ pc[c] = "exited"
    /\ ~abandoned[c]
    /\ CallerFree
    /\ ret' = [ret EXCEPT ![c] = Some(AwaitResult(taskOut[c][1]))]
    /\ taskOut' = [taskOut EXCEPT ![c] = None]
    /\ reports' = [reports EXCEPT ![c] = @ + 1]
    /\ pc' = [pc EXCEPT ![c] = "returned"]
    /\ UNCHANGED << url, abandoned, keypair, path, client, connection, log,
                    transport, issued, hist, behind >>
    /\ UNCHANGED callFrame

\* the caller drops the command's future; the closure, already handed to
\* the blocking pool, is not touched
Abandon(c) ==
    /\ InClosure(c)
    /\ ~abandoned[c]
    /\ abandoned' = [abandoned EXCEPT ![c] = TRUE]
    /\ UNCHANGED << pc, url, keypair, path, client, connection, log,
                    taskOut, ret, transport, issued, hist, reports, behind >>
    /\ UNCHANGED callFrame

(***************************************************************************)
(* get_app_version                                                         *)
(***************************************************************************)
GetAppVersion ==
    /\ CallerFree
    /\ appVersion' = Some(PkgVersion)
    /\ behind' = (behind \/ \E d \in Calls : Blocked(d))
    /\ UNCHANGED << pc, url, abandoned, keypair, path, client, connection,
                    log, taskOut, ret, transport, issued, hist, reports >>
    /\ UNCHANGED pathVars

Next ==
    \/ \E c \in Calls : Invoke(c)
    \/ \E c \in Calls : KeygenOk(c)
    \/ \E c \in Calls : KeygenErr(c)
    \/ \E c \in Calls : ConnectOk(c)
    \/ \E c \in Calls : ConnectErr(c)
    \/ \E c \in Calls : GetOk(c)
    \/ \E c \in Calls : GetErr(c)
    \/ \E c \in Calls : Panic(c)
    \/ \E c \in Calls : Join(c)
    \/ \E c \in Calls : Abandon(c)
    \/ GetAppVersion

Spec == Init /\ [][Next]_vars

(***************************************************************************)
(* extract_path alone: the URL is drawn from scheme://host[:port][/path]   *)
(* and the function is applied to it.                                      *)
(***************************************************************************)
Schemes == { << "w", "e", "b" >>, << "p", "r", "o", "t", "o" >> }
Hosts   == { << "h" >>, << "h", "o", "s", "t" >> }
Ports   == { << >>, << ":", "8" >> }

PathChars == { "/", "a", "b" }

\* the empty path, and every path of at most MaxPathLen characters that
\* starts with a slash
Paths ==
    { << >> } \cup
    UNION { { << "/" >> \o s : s \in [1..k -> PathChars] } :
            k \in 0..(MaxPathLen - 1) }

UrlParts == [scheme : Schemes, host : Hosts, port : Ports, path : Paths]

UrlOf(parts) ==
    parts.scheme \o << ":", "/", "/" >> \o parts.host \o parts.port
    \o parts.path

InitPath ==
    /\ InitCalls
    /\ purl \in UrlParts
    /\ pout = None
    /\ HexIdle

ExtractPath ==
    /\ pout = None
    /\ pout' = Some(extract_path(UrlOf(purl)))
    /\ UNCHANGED << pc, url, abandoned, keypair, path, client, connection,
                    log, taskOut, ret, transport, issued, hist, reports,
                    appVersion, behind, purl, hin, hout >>

NextPath == ExtractPath

SpecPath == InitPath /\ [][NextPath]_vars

(***************************************************************************)
(* Vocabulary of the properties.                                           *)
(***************************************************************************)
\* the command has answered with Ok(NwepResult)
Answered(c) == pc[c] = "returned" /\ ret[c][1].tag = "Ok"

\* that NwepResult
ResultOf(c) == ret[c][1].val[1]

Last(sq) == sq[Len(sq)]

\* the library calls invocation c made of op, and their returns
CallsOf(c, op) ==
    { i \in 1..Len(hist[c]) : hist[c][i].ev = "call" /\ hist[c][i].op = op }
ReturnsOf(c, op) ==
    { i \in 1..Len(hist[c]) : hist[c][i].ev = "ret" /\ hist[c][i].op = op }

Succeeded(c, op) == \E i \in ReturnsOf(c, op) : hist[c][i].ok
Failed(c, op)    == \E i \in ReturnsOf(c, op) : ~hist[c][i].ok

\* the error a failed op handed back
ErrorOf(c, op) ==
    hist[c][CHOOSE i \in ReturnsOf(c, op) : ~hist[c][i].ok].val[1]

\* the value a successful op handed back
ValueOf(c, op) ==
    hist[c][CHOOSE i \in ReturnsOf(c, op) : hist[c][i].ok].val[1]

Stages == << "generate", "connect", "get" >>
StageNames == << NameKeypair, NameConnect, NameFetch >>

(***************************************************************************)
(* C1: every invocation of nwep_fetch that answers its caller answers with *)
(* an NwepResult, never with the Err variant, whatever happened in the     *)
(* worker.                                                                 *)
(***************************************************************************)
C1_AlwaysNwepResult ==
    \A c \in Calls : pc[c] = "returned" => ret[c][1].tag = "Ok"

(***************************************************************************)
(* C2: when a stage fails with error e, the result has ok = false, its     *)
(* error is e's message text unchanged, and the last log step is a failed  *)
(* step of that stage whose detail is the same text.                       *)
(***************************************************************************)
C2_FailureReported ==
    \A c \in Calls : \A s \in 1..3 :
        (Answered(c) /\ Failed(c, Stages[s])) =>
            LET r == ResultOf(c)
                m == ErrorOf(c, Stages[s]).msg
            IN  /\ r.ok = FALSE
                /\ r.error = Some(m)
                /\ r.log # << >>
                /\ Last(r.log) = [name |-> StageNames[s], ok |-> FALSE,
                                  detail |-> Some(m)]

C2_Witness ==
    \E c \in Calls :
        /\ Answered(c)
        /\ Failed(c, "connect")
        /\ ErrorOf(c, "connect").kind = "TransportError"
        /\ ResultOf(c).error = Some("connection refused")
        /\ Last(ResultOf(c).log).detail = Some("connection refused")

(***************************************************************************)
(* C3: the log of a result is a non-empty prefix of the three stages in    *)
(* order, one step per stage attempted; every step but the last is ok, and *)
(* the last one is failed exactly when the result is.                      *)
(***************************************************************************)
C3_LogIsStagePrefix ==
    \A c \in Calls :
        Answered(c) =>
            LET lg == ResultOf(c).log
            IN  /\ Len(lg) \in 1..3
                /\ \A i \in 1..Len(lg) : lg[i].name = StageNames[i]
                /\ \A i \in 1..(Len(lg) - 1) : lg[i].ok
                /\ Last(lg).ok = ResultOf(c).ok
                /\ \A i \in 1..3 :
                       (i <= Len(lg)) <=> (CallsOf(c, Stages[i]) # { })
                /\ \A i \in 1..Len(lg) :
                       lg[i].ok = Succeeded(c, Stages[i])

C3_Witness ==
    \E c \in Calls :
        /\ Answered(c)
        /\ Len(ResultOf(c).log) = 3
        /\ ResultOf(c).log[2].ok
        /\ ~ResultOf(c).log[3].ok

(***************************************************************************)
(* C4: the result carries the connection identifiers exactly when connect  *)
(* succeeded, also when the get that followed failed; they are the ones of *)
(* the established client.                                                 *)
(***************************************************************************)
C4_ConnectionIffConnected ==
    \A c \in Calls :
        Answered(c) =>
            LET r == ResultOf(c)
            IN  /\ (r.connection # None) <=> Succeeded(c, "connect")
                /\ Succeeded(c, "connect") =>
                       LET cl == ValueOf(c, "connect")
                       IN  r.connection =
                             Some([client_node_id |->
                                       << "node" >> \o to_hex(PubKey(cl.keypair)),
                                   server_node_id |->
                                       << "node" >> \o to_hex(cl.peer),
                                   server_pubkey |-> to_hex(cl.peer)])

C4_Witness ==
    \E c \in Calls :
        /\ Answered(c)
        /\ Succeeded(c, "connect")
        /\ Failed(c, "get")
        /\ ~ResultOf(c).ok
        /\ ResultOf(c).connection # None
        /\ ResultOf(c).connection[1].server_pubkey = << "0", "a", "f", "f" >>

(***************************************************************************)
(* C5: when connect fails, the result has ok = false and the connect       *)
(* error, no headers, no status and no body, and its log is one successful *)
(* keypair step followed by one failed connection step; no fetch step.     *)
(***************************************************************************)
C5_ConnectFailure ==
    \A c \in Calls :
        (Answered(c) /\ Failed(c, "connect")) =>
            LET r == ResultOf(c)
                m == ErrorOf(c, "connect").msg
            IN  /\ r.ok = FALSE
                /\ r.error = Some(m)
                /\ r.headers = << >>
                /\ r.status = None
                /\ r.status_details = None
                /\ r.body = None
                /\ r.log = << [name |-> NameKeypair, ok |-> TRUE,
                               detail |-> None],
                              [name |-> NameConnect, ok |-> FALSE,
                               detail |-> Some(m)] >>
                /\ CallsOf(c, "get") = { }

C5_Witness ==
    \E c, d \in Calls :
        /\ Answered(c) /\ Failed(c, "connect")
        /\ ErrorOf(c, "connect").kind = "TransportError"
        /\ Answered(d) /\ Failed(d, "connect")
        /\ ErrorOf(d, "connect").kind = "IdentityMismatch"
        /\ Len(ResultOf(d).log) = 2

(***************************************************************************)
(* C6, as stated: for every URL <scheme>://host[:port][/path...],          *)
(* extract_path returns the path from the first slash after the authority, *)
(* and "/" when there is none.                                             *)
(***************************************************************************)
PathAfterAuthority(parts) ==
    IF parts.path = << >> THEN << "/" >> ELSE parts.path

C6_AnyScheme ==
    pout # None => pout[1] = PathAfterAuthority(purl)

(***************************************************************************)
(* C6, amended: the same for every URL web://host[:port][/path...]; so     *)
(* extract_path("web://host") = "/" and extract_path("web://host/a/b") =   *)
(* "/a/b".                                                                 *)
(***************************************************************************)
C6_WebScheme ==
    (pout # None /\ purl.scheme = << "w", "e", "b" >>) =>
        pout[1] = PathAfterAuthority(purl)

C6_Witness ==
    /\ pout # None
    /\ purl.scheme = << "w", "e", "b" >>
    /\ purl.host = << "h", "o", "s", "t" >>
    /\ purl.path = << "/", "a", "/", "b" >>
    /\ pout[1] = << "/", "a", "/", "b" >>

(***************************************************************************)
(* C7: no retries.  In one invocation each of generate, connect and get is *)
(* called at most once, a failed call is the last library call of the      *)
(* invocation, and the outcome is delivered to the caller exactly once.    *)
(***************************************************************************)
C7_NoRetries ==
    \A c \in Calls :
        /\ \A s \in 1..3 : Cardinality(CallsOf(c, Stages[s])) <= 1
        /\ \A i \in 1..Len(hist[c]) :
               (hist[c][i].ev = "ret" /\ ~hist[c][i].ok) =>
                   /\ i = Len(hist[c])
                   /\ pc[c] \in { "exited", "returned" }
        /\ reports[c] <= 1
        /\ pc[c] = "returned" <=> reports[c] = 1

C7_Witness ==
    \E c \in Calls :
        /\ pc[c] = "returned"
        /\ Failed(c, "connect")
        /\ Cardinality(CallsOf(c, "connect")) = 1
        /\ reports[c] = 1

(***************************************************************************)
(* C8: concurrent invocations are isolated.  Each has its own keypair and  *)
(* its own log, and its result is the one its own library calls determine, *)
(* under every interleaving.                                               *)
(***************************************************************************)
\* the result that the returns in h, one invocation's own history, determine
OwnResult(h) ==
    LET gen == h[2]
    IN  IF ~gen.ok
        THEN KeygenFailResult(gen.val[1], << KeygenErrStep(gen.val[1]) >>)
        ELSE LET con == h[4]
             IN  IF ~con.ok
                 THEN ConnectFailResult(con.val[1],
                          << KeygenOkStep, ConnectErrStep(con.val[1]) >>)
                 ELSE LET get == h[6]
                          ci  == ConnectionInfo(
                                     [keypair |-> gen.val[1],
                                      peer |-> con.val[1].peer])
                      IN  IF ~get.ok
                          THEN GetFailResult(get.val[1], ci,
                                   << KeygenOkStep, ConnectOkStep,
                                      FetchErrStep(get.val[1]) >>)
                          ELSE SuccessResult(get.val[1], ci,
                                   << KeygenOkStep, ConnectOkStep,
                                      FetchOkStep(get.val[1]) >>)

C8_Isolation ==
    /\ \A c \in Calls :
           /\ Len(log[c]) = Cardinality({ i \in 1..Len(hist[c]) :
                                            hist[c][i].ev = "ret" })
           /\ Answered(c) => ResultOf(c) = OwnResult(hist[c])
    /\ \A c, d \in Calls :
           (c # d /\ keypair[c] # None /\ keypair[d] # None) =>
               keypair[c] # keypair[d]
    /\ \A c, d \in Calls :
           (/\ c # d
            /\ Answered(c) /\ ResultOf(c).connection # None
            /\ Answered(d) /\ ResultOf(d).connection # None) =>
               ResultOf(c).connection[1].client_node_id
                   # ResultOf(d).connection[1].client_node_id

\* two invocations that overlapped (the later one got its keypair first)
\* and ended differently
C8_Witness ==
    \E c, d \in Calls :
        /\ c < d
        /\ Answered(c) /\ Answered(d)
        /\ keypair[d] = Some(1) /\ keypair[c] = Some(2)
        /\ ResultOf(c).ok
        /\ ~ResultOf(d).ok /\ ResultOf(d).connection # None

(***************************************************************************)
(* C9: the blocking sequence runs off the caller's execution context.      *)
(* While an invocation is inside connect or get, get_app_version can be    *)
(* answered, a further nwep_fetch can be invoked, and every other          *)
(* invocation can take its next step.                                      *)
(***************************************************************************)
C9_BlockedCallStallsNothing ==
    \A c \in Calls :
        Blocked(c) =>
            /\ ENABLED GetAppVersion
            /\ \A d \in Calls \ { c } :
                   /\ (pc[d] = "idle" /\ \A b \in 1..(d - 1) : pc[b] # "idle")
                          => ENABLED Invoke(d)
                   /\ pc[d] = "keygen" => ENABLED KeygenOk(d)
                   /\ pc[d] = "connecting" => ENABLED ConnectOk(d)
                   /\ pc[d] = "getting" => ENABLED GetOk(d)
                   /\ (pc[d] = "exited" /\ ~abandoned[d]) => ENABLED Join(d)

\* c is still inside connect or get; since it went in, get_app_version was
\* answered and d got its keypair, connected, fetched and answered
C9_Witness ==
    \E c, d \in Calls :
        /\ Blocked(c)
        /\ behind
        /\ appVersion = Some(PkgVersion)
        /\ Answered(d) /\ ResultOf(d).ok
        /\ keypair[c][1] < keypair[d][1]

(***************************************************************************)
(* C10: when the caller abandons an invocation that is inside connect or   *)
(* get, the transport connection is closed, so that the worker does not    *)
(* stay blocked.                                                           *)
(***************************************************************************)
C10_AbandonClosesTransport ==
    \A c \in Calls :
        (abandoned[c] /\ Blocked(c)) => transport[c] = "closed"

(***************************************************************************)
(* One invocation, given any response: the library's Ok(resp) of get is    *)
(* drawn from every combination of status, detail, header list and body.   *)
(***************************************************************************)
StatusTexts == { "ok", "not_found" }
DetailTexts == { "", "no such page" }
HeaderPool  == { Header("via", "a"), Header("via", "b"), Header("x", "a") }
BodyBytes   == { << >>, << 104, 255 >> }

HeaderLists == UNION { [1..k -> HeaderPool] : k \in 0..MaxHeaders }

AnyResponses ==
    [status : StatusTexts, status_details : DetailTexts,
     headers : HeaderLists, body : BodyBytes]

GetOkAny(c) == \E r \in AnyResponses : GetOkWith(c, r)

NextResp ==
    \/ Invoke(1)
    \/ KeygenOk(1)
    \/ KeygenErr(1)
    \/ ConnectOk(1)
    \/ ConnectErr(1)
    \/ GetOkAny(1)
    \/ GetErr(1)
    \/ Panic(1)
    \/ Join(1)
    \/ Abandon(1)

SpecResp == Init /\ [][NextResp]_vars

(***************************************************************************)
(* C11: on a successful fetch the result carries the response's status and *)
(* status_details unchanged, as two fields; only the fetch step's detail   *)
(* joins them: the status alone when status_details is empty, otherwise    *)
(* "<status> <status_details>".                                            *)
(***************************************************************************)
C11_StatusCarriedSeparately ==
    \A c \in Calls :
        (Answered(c) /\ Succeeded(c, "get")) =>
            LET r    == ResultOf(c)
                resp == ValueOf(c, "get")
            IN  /\ r.status = << resp.status >>
                /\ r.status_details = << resp.status_details >>
                /\ Len(r.log) = 3
                /\ r.log[3].name = NameFetch
                /\ r.log[3].detail =
                       << IF resp.status_details = ""
                          THEN resp.status
                          ELSE resp.status \o " " \o resp.status_details >>

C11_Witness ==
    /\ Answered(1)
    /\ ResultOf(1).status = << "not_found" >>
    /\ ResultOf(1).status_details = << "" >>
    /\ ResultOf(1).log[3].detail = << "not_found" >>

C11_WitnessJoined ==
    /\ Answered(1)
    /\ ResultOf(1).status = << "not_found" >>
    /\ ResultOf(1).status_details = << "no such page" >>
    /\ ResultOf(1).log[3].detail = << "not_found no such page" >>

(***************************************************************************)
(* One invocation, given any URL: with the web:// prefix, with no scheme,  *)
(* with another scheme, with and without port and path, and a few strings  *)
(* that are no URL at all.                                                 *)
(***************************************************************************)
OtherPrefix == << "p", "r", "o", "t", "o", ":", "/", "/" >>

UrlPrefixes == { WebPrefix, << >>, OtherPrefix }

OddUrls == { << >>, << "/" >>, WebPrefix, WebPrefix \o << "/" >>,
             << "w", "e", "b", ":" >> }

AnyUrls ==
    { pre \o h \o po \o pa :
        pre \in UrlPrefixes, h \in Hosts, po \in Ports, pa \in Paths }
    \cup OddUrls

InvokeAny == \E u \in AnyUrls : InvokeWith(1, u)

NextUrl ==
    \/ InvokeAny
    \/ KeygenOk(1)
    \/ KeygenErr(1)
    \/ ConnectOk(1)
    \/ ConnectErr(1)
    \/ GetOk(1)
    \/ GetErr(1)
    \/ Panic(1)
    \/ Join(1)
    \/ Abandon(1)

SpecUrl == Init /\ [][NextUrl]_vars

(***************************************************************************)
(* C12: whatever the URL string, with or without the web:// scheme, with   *)
(* or without a path, the path handed to Client::get is non-empty and      *)
(* starts with a slash; for a URL web://host[:port] or host[:port], which  *)
(* has no path, it is exactly "/".                                         *)
(***************************************************************************)
\* the path argument of the get call at position i of c's history
GetPathAt(c, i) == hist[c][i].val[2]

\* u is web://host[:port] or host[:port]
HasNoPath(u) ==
    \E pre \in { WebPrefix, << >> }, h \in Hosts, po \in Ports :
        u = pre \o h \o po

C12_Witness ==
    \E i \in CallsOf(1, "get") :
        /\ url[1] = << "h", "o", "s", "t", ":", "8" >>
        /\ GetPathAt(1, i) = << "/" >>

C13_HeadersPairByPair ==
    \A c \in Calls :
        (Answered(c) /\ Succeeded(c, "get")) =>
            LET got  == ResultOf(c).headers
                sent == ValueOf(c, "get").headers
            IN  /\ Len(got) = Len(sent)
                /\ \A i \in 1..Len(sent) :
                       /\ DOMAIN got[i] = { "name", "value" }
                       /\ got[i].name = sent[i].name
                       /\ got[i].value = sent[i].value

C13_Witness ==
    /\ Answered(1)
    /\ Succeeded(1, "get")
    /\ ValueOf(1, "get").headers =
           << [name |-> "via", value |-> "b"], [name |-> "via", value |-> "a"] >>
    /\ ResultOf(1).headers =
           << [name |-> "via", value |-> "b"], [name |-> "via", value |-> "a"] >>

(***************************************************************************)
(* to_hex alone: it is applied to two byte sequences, the first any single *)
(* byte or a short sequence, the second a short sequence.                  *)
(***************************************************************************)
Bytes == 0..255

SomeBytes == { 0, 10, 16, 171, 255 }

ShortKeys == UNION { [1..k -> SomeBytes] : k \in 0..MaxKeyLen }

HexInputs == { << b >> : b \in Bytes } \cup ShortKeys

InitHex ==
    /\ InitCalls
    /\ purl = DefaultParts
    /\ pout = None
    /\ hin \in HexInputs \X ShortKeys
    /\ hout = None

ToHex ==
    /\ hout = None
    /\ hout' = Some(<< to_hex(hin[1]), to_hex(hin[2]) >>)
    /\ UNCHANGED << pc, url, abandoned, keypair, path, client, connection,
                    log, taskOut, ret, transport, issued, hist, reports,
                    appVersion, behind, purl, pout, hin >>

NextHex == ToHex

SpecHex == InitHex /\ [][NextHex]_vars

(***************************************************************************)
(* C14: to_hex renders a byte sequence in lowercase hexadecimal, two       *)
(* characters per byte, no separators: the output is twice as long as the  *)
(* input, uses only 0-9 and a-f, and its i-th pair of characters is the    *)
(* i-th byte, high nibble first; so different inputs give different        *)
(* outputs.                                                                *)
(***************************************************************************)
LowerHexChars == { "0", "1", "2", "3", "4", "5", "6", "7", "8", "9",
                   "a", "b", "c", "d", "e", "f" }

\* the value of a lowercase hexadecimal character
HexValue(ch) ==
    CASE ch = "0" -> 0  [] ch = "1" -> 1  [] ch = "2" -> 2  [] ch = "3" -> 3
      [] ch = "4" -> 4  [] ch = "5" -> 5  [] ch = "6" -> 6  [] ch = "7" -> 7
      [] ch = "8" -> 8  [] ch = "9" -> 9  [] ch = "a" -> 10 [] ch = "b" -> 11
      [] ch = "c" -> 12 [] ch = "d" -> 13 [] ch = "e" -> 14 [] ch = "f" -> 15

RendersLowerHex(bytes, text) ==
    /\ Len(text) = 2 * Len(bytes)
    /\ \A j \in 1..Len(text) : text[j] \in LowerHexChars
    /\ \A i \in 1..Len(bytes) :
           (2 * i <= Len(text)) =>
               16 * HexValue(text[2 * i - 1]) + HexValue(text[2 * i])
                   = bytes[i]

C14_ToHexLowercasePairs ==
    hout # None =>
        /\ RendersLowerHex(hin[1], hout[1][1])
        /\ RendersLowerHex(hin[2], hout[1][2])
        /\ (hout[1][1] = hout[1][2]) => (hin[1] = hin[2])

C14_Witness ==
    /\ hout # None
    /\ hin[1] = << 10, 255 >>
    /\ hout[1][1] = << "0", "a", "f", "f" >>
    /\ hin[2] = << 171 >>
    /\ hout[1][2] = << "a", "b" >>

(***************************************************************************)
(* C15: the stages of one invocation are ordered.  connect is called only  *)
(* after this invocation's Keypair::generate succeeded, with the keypair   *)
(* it returned, once; get is called, and the identifiers are read, only on *)
(* the client that this invocation's successful connect returned; after a  *)
(* failed stage no later stage is called.                                  *)
(***************************************************************************)
C15_StageOrdering ==
    \A c \in Calls :
        LET h    == hist[c]
            conn == CallsOf(c, "connect")
            gets == CallsOf(c, "get")
            genR == ReturnsOf(c, "generate")
            conR == ReturnsOf(c, "connect")
        IN  /\ \A i \in conn :
                   /\ \E j \in genR :
                          j < i /\ h[j].ok /\ h[j].val = h[i].val
                   /\ \A d \in Calls \ { c } : \A j \in ReturnsOf(d, "generate") :
                          hist[d][j].ok => hist[d][j].val # h[i].val
                   /\ \A j \in conn : j = i
            /\ \A i \in gets :
                   /\ \E j \in conR :
                          /\ j < i /\ h[j].ok
                          /\ h[j].val = Some(h[i].val[1])
                          /\ \E k \in conn :
                                 k < j /\ h[k].val = Some(h[i].val[1].keypair)
                   /\ connection[c] = Some(ConnectionInfo(h[i].val[1]))
            /\ connection[c] # None => \E j \in conR : h[j].ok
            /\ client[c] # None => \E j \in conR : h[j].ok
            /\ (\E j \in genR : ~h[j].ok) => conn = { }
            /\ (\E j \in conR : ~h[j].ok) => gets = { }

\* the invocation that got the second keypair connected with it and fetched
C15_Witness ==
    \E c \in Calls :
        /\ Answered(c)
        /\ hist[c][2] = Returned("generate", TRUE, Some(2))
        /\ hist[c][3] = Called("connect", Some(2))
        /\ Succeeded(c, "connect")
        /\ CallsOf(c, "get") # { }
        /\ ResultOf(c).connection[1].client_node_id = << "node", "0", "2" >>

(***************************************************************************)
(* C16: every result is well formed.  ok holds exactly when error is       *)
(* absent, and exactly when the log has three steps that are all ok; with  *)
(* ok, status, status_details, body and connection are present; without    *)
(* ok, status, status_details and body are absent and headers is empty.    *)
(***************************************************************************)
C16_ResultWellFormed ==
    \A c \in Calls :
        Answered(c) =>
            LET r == ResultOf(c)
            IN  /\ r.ok \in BOOLEAN
                /\ r.ok <=> (r.error = None)
                /\ r.ok <=> (/\ Len(r.log) = 3
                             /\ \A i \in 1..Len(r.log) : r.log[i].ok)
                /\ r.ok => /\ r.status # None
                           /\ r.status_details # None
                           /\ r.body # None
                           /\ r.connection # None
                /\ ~r.ok => /\ r.status = None
                            /\ r.status_details = None
                            /\ r.body = None
                            /\ r.headers = << >>

\* a failed result whose log has three steps
C16_Witness ==
    /\ Answered(1)
    /\ ~ResultOf(1).ok
    /\ ResultOf(1).error # None
    /\ Len(ResultOf(1).log) = 3
    /\ ResultOf(1).connection # None

C16_WitnessOk ==
    /\ Answered(1)
    /\ ResultOf(1).ok
    /\ ResultOf(1).status_details = << "" >>
    /\ ResultOf(1).body = << << >> >>
    /\ ResultOf(1).headers # << >>

=============================================================================
